---- MODULE Spec2Model ----
(***************************************************************************)
(* gtsam/linear/EigenOptimizer.cpp: assembly of the sparse augmented       *)
(* matrix [A|b] of a Gaussian factor graph (obtainSparseMatrix) and the    *)
(* two solve entry points optimizeEigenQR and optimizeEigenCholesky.       *)
(*                                                                         *)
(* Every call has its own locals (one slot per call in each variable);     *)
(* the only state the calls share is the timing stack that the gttic_ and  *)
(* gttoc_ macros of gtsam/base/timing.h push to and pop from.              *)
(* Doubles are modelled by exact rationals <<num, den>>; <<0, 0>> is a     *)
(* non-finite / indeterminate value.                                       *)
(***************************************************************************)
EXTENDS Integers, Sequences, FiniteSets, TLC

VARIABLES fn, gfg, orderingType, pc, triplets, rows, cols, it, Ab, x,
          factorizations, result, outcome, gCurrentTimer

vars == <<fn, gfg, orderingType, pc, triplets, rows, cols, it, Ab, x,
          factorizations, result, outcome, gCurrentTimer>>

inputs == <<fn, gfg, orderingType>>
asmVars == <<triplets, rows, cols, it, Ab>>
solveVars == <<x, factorizations, result>>

-----------------------------------------------------------------------------
(* Bounds of the model *)

\* longest raw entry sequence handed to obtainSparseMatrix alone
MaxEntries == 2
\* largest row / column index of a raw entry
MaxIndex == 1
\* most factors (rows of [A|b]) of a factor graph handed to a solve call
MaxFactors == 2
\* width of size_t in the model (64 in the build); int has half of it
SizeBits == 8

Calls == {1, 2}

\* values of raw entries: the spec's example (0,0,2.0), (0,0,3.0)
RawValues == {2, 3}
\* coefficients and right-hand sides of the factors of a graph
CoefValues == {0, 1}
RhsValues == {2, 4}
\* the KeyDimMaps of the graphs: no variable, one of dimension 1 or 2, two of 1
KeyDimMaps == {<<>>, <<1>>, <<2>>, <<1, 1>>}

Recognized == {"NATURAL", "AMD", "COLAMD", "METIS"}
Tokens == Recognized \cup {"BOGUS", "amd"}

-----------------------------------------------------------------------------
(* Exact arithmetic standing for double *)

RECURSIVE GCD(_, _)
GCD(a, b) == IF b = 0 THEN a ELSE GCD(b, a % b)

Abs(a) == IF a < 0 THEN -a ELSE a

NaN == <<0, 0>>
IsNaN(q) == q[2] = 0
Zero == <<0, 1>>
Rat(i) == <<i, 1>>

Norm(n, d) ==
    IF d = 0 THEN NaN
    ELSE LET g == GCD(Abs(n), Abs(d))
             s == IF d < 0 THEN -1 ELSE 1
         IN <<(s * n) \div g, (s * d) \div g>>

RAdd(p, q) == IF IsNaN(p) \/ IsNaN(q) THEN NaN
              ELSE Norm(p[1] * q[2] + q[1] * p[2], p[2] * q[2])
RSub(p, q) == IF IsNaN(p) \/ IsNaN(q) THEN NaN
              ELSE Norm(p[1] * q[2] - q[1] * p[2], p[2] * q[2])
RMul(p, q) == IF IsNaN(p) \/ IsNaN(q) THEN NaN
              ELSE Norm(p[1] * q[1], p[2] * q[2])
RDiv(p, q) == IF IsNaN(p) \/ IsNaN(q) THEN NaN
              ELSE Norm(p[1] * q[2], p[2] * q[1])

RECURSIVE Dot(_, _)
Dot(u, v) == IF u = <<>> THEN Zero
             ELSE RAdd(RMul(Head(u), Head(v)), Dot(Tail(u), Tail(v)))

VSub(u, v) == [i \in 1..Len(u) |-> RSub(u[i], v[i])]
VScale(c, u) == [i \in 1..Len(u) |-> RMul(c, u[i])]

RECURSIVE SeqSum(_)
SeqSum(s) == IF s = <<>> THEN 0 ELSE Head(s) + SeqSum(Tail(s))

RECURSIVE Flatten(_)
Flatten(ss) == IF ss = <<>> THEN <<>> ELSE Head(ss) \o Flatten(Tail(ss))

Max(a, b) == IF a > b THEN a ELSE b

ColumnOrders(n) == {q \in [1..n -> 1..n] : \A i, j \in 1..n : q[i] = q[j] => i = j}
Identity(n) == [i \in 1..n |-> i]

-----------------------------------------------------------------------------
(* Integer conversions of the build, at the model's widths *)

\* conversion to size_t (line 43: size_t temp_rows = e.get<0>())
ToSizeT(i) == i % (2 ^ SizeBits)

\* conversion of a size_t to Eigen::Index (signed, as wide as size_t)
ToIndex(u) == IF u >= 2 ^ (SizeBits - 1) THEN u - 2 ^ SizeBits ELSE u

\* conversion of a size_t to the int index of an Eigen::Triplet<double>
ToStorageIndex(u) ==
    LET h == 2 ^ (SizeBits \div 2)
        m == u % h
    IN IF m >= h \div 2 THEN m - h ELSE m

-----------------------------------------------------------------------------
(* The timing stack of gttic_ / gttoc_ *)

ticInternal(timer, label) == Append(timer, label)

\* tocInternal throws std::invalid_argument unless the last tic has this label
tocMatches(timer, label) == timer # <<>> /\ timer[Len(timer)] = label

tocInternal(timer, label) == SubSeq(timer, 1, Len(timer) - 1)

-----------------------------------------------------------------------------
(* Sparse matrices: rows, cols and the coefficient at every coordinate *)

SpMat(nr, nc) ==
    [rows |-> nr, cols |-> nc,
     coeff |-> [rc \in (0..nr - 1) \X (0..nc - 1) |-> 0]]

\* the loop body's emplace_back of one entry
emplace_back_replacing(ts, e) ==
    LET t == <<ToStorageIndex(ToSizeT(e[1])), ToStorageIndex(ToSizeT(e[2])), e[3]>>
    IN Append(SelectSeq(ts, LAMBDA u : <<u[1], u[2]>> # <<t[1], t[2]>>), t)

emplace_back(ts, e) ==
    Append(ts, <<ToStorageIndex(ToSizeT(e[1])), ToStorageIndex(ToSizeT(e[2])), e[3]>>)

\* lines 43-46: one iteration on entry e, from the locals st
loopBody(st, e) ==
    [triplets |-> emplace_back(st.triplets, e),
     rows |-> Max(st.rows, ToSizeT(e[1])),
     cols |-> Max(st.cols, ToSizeT(e[2]))]

\* the shape of SpMat Ab(rows + 1, cols + 1), in size_t arithmetic
matrixShape_noAugment(r, c) == <<ToIndex(ToSizeT(r)), ToIndex(ToSizeT(c))>>

matrixShape_rowsOnly(r, c) == <<ToIndex(ToSizeT(r + 1)), ToIndex(ToSizeT(c))>>

matrixShape(r, c) == <<ToIndex(ToSizeT(r + 1)), ToIndex(ToSizeT(c + 1))>>

\* what setFromTriplets requires of every triplet
tripletsInRange(M, ts) ==
    \A k \in 1..Len(ts) :
        /\ 0 <= ts[k][1] /\ ts[k][1] < M.rows
        /\ 0 <= ts[k][2] /\ ts[k][2] < M.cols

RECURSIVE sumAt(_, _)
sumAt(ts, rc) ==
    IF ts = <<>> THEN 0
    ELSE (IF <<Head(ts)[1], Head(ts)[2]>> = rc THEN Head(ts)[3] ELSE 0)
         + sumAt(Tail(ts), rc)

\* Ab.setFromTriplets: the coefficients of equal coordinates are summed
setFromTriplets(M, ts) ==
    [M EXCEPT !.coeff = [rc \in DOMAIN M.coeff |-> sumAt(ts, rc)]]

RECURSIVE forLoop(_, _)
forLoop(st, es) == IF es = <<>> THEN st ELSE forLoop(loopBody(st, Head(es)), Tail(es))

\* obtainSparseMatrix as a function of the entries, every triplet in range
obtainSparseMatrix(es) ==
    LET st == forLoop([triplets |-> <<>>, rows |-> 0, cols |-> 0], es)
        shape == matrixShape(st.rows, st.cols)
    IN setFromTriplets(SpMat(shape[1], shape[2]), st.triplets)

\* Ab.block(0, 0, nr, nc) and what it requires
blockInRange(M, nr, nc) == 0 <= nr /\ nr <= M.rows /\ 0 <= nc /\ nc <= M.cols

block(M, nr, nc) ==
    [rows |-> nr, cols |-> nc,
     coeff |-> [rc \in (0..nr - 1) \X (0..nc - 1) |-> M.coeff[rc]]]

\* Ab.col(j) as a dense vector
col(M, j) == [i \in 1..M.rows |-> Rat(M.coeff[<<i - 1, j>>])]

columns(M) == [j \in 1..M.cols |-> col(M, j - 1)]

-----------------------------------------------------------------------------
(* The factorization kernels *)

\* least squares by orthogonalising the columns in the given order; a column
\* that depends on the earlier ones gets the value 0 (rank-revealing QR)
RECURSIVE QRSolveCols(_, _)
QRSolveCols(cs, b) ==
    IF cs = <<>> THEN <<>>
    ELSE LET a == Head(cs)
             nn == Dot(a, a)
         IN IF nn = Zero THEN <<Zero>> \o QRSolveCols(Tail(cs), b)
            ELSE LET proj(v) == VSub(v, VScale(RDiv(Dot(a, v), nn), a))
                     rest == [j \in 1..Len(cs) - 1 |-> proj(cs[j + 1])]
                     xr == QRSolveCols(rest, proj(b))
                     s == Dot([j \in 1..Len(xr) |-> Dot(a, cs[j + 1])], xr)
                 IN <<RDiv(RSub(Dot(a, b), s), nn)>> \o xr

\* Eigen::SparseQR<SpMat, Ordering>(A).solve(b) under the column order perm
SparseQR_solve(A, b, perm) ==
    LET cs == columns(A)
        xp == QRSolveCols([i \in 1..A.cols |-> cs[perm[i]]], b)
    IN [j \in 1..A.cols |-> xp[CHOOSE i \in 1..A.cols : perm[i] = j]]

\* LDL^T elimination of the first variable, then of the rest; a zero pivot
\* leaves nothing but non-finite values
RECURSIVE LDLTSolve(_, _)
LDLTSolve(N, c) ==
    IF c = <<>> THEN <<>>
    ELSE LET n == Len(c)
             d == N[1][1]
             N2 == [i \in 1..n - 1 |-> [j \in 1..n - 1 |->
                      RSub(N[i + 1][j + 1], RDiv(RMul(N[i + 1][1], N[j + 1][1]), d))]]
             c2 == [i \in 1..n - 1 |-> RSub(c[i + 1], RDiv(RMul(N[i + 1][1], c[1]), d))]
             x2 == LDLTSolve(N2, c2)
             s == Dot([j \in 1..n - 1 |-> N[j + 1][1]], x2)
         IN <<RDiv(RSub(c[1], s), d)>> \o x2

\* Eigen::SimplicialLDLT<SpMat, Lower, Ordering>(N).solve(c) under perm
SimplicialLDLT_solve(N, c, perm) ==
    LET n == Len(c)
        xp == LDLTSolve([i \in 1..n |-> [j \in 1..n |-> N[perm[i]][perm[j]]]],
                        [i \in 1..n |-> c[perm[i]]])
    IN [j \in 1..n |-> xp[CHOOSE i \in 1..n : perm[i] = j]]

\* the column orders an ordering algorithm may produce
OrderingPerms(ordering, n) ==
    IF ordering = "NaturalOrdering" THEN {Identity(n)} ELSE ColumnOrders(n)

-----------------------------------------------------------------------------
(* solveQR and solveCholesky *)

\* size_t cols - 1
colsMinusOne(M) == ToIndex(ToSizeT(M.cols - 1))

solveInRange(M) == blockInRange(M, M.rows, colsMinusOne(M)) /\ M.cols >= 1

solveQR(M, perm) ==
    SparseQR_solve(block(M, M.rows, colsMinusOne(M)), col(M, M.cols - 1), perm)

solveCholesky_rhsFirstColumn(M, perm) ==
    LET A == columns(block(M, M.rows, colsMinusOne(M)))
        b == col(M, 0)
        n == Len(A)
    IN SimplicialLDLT_solve([i \in 1..n |-> [j \in 1..n |-> Dot(A[i], A[j])]],
                            [i \in 1..n |-> Dot(A[i], b)], perm)

solveCholesky(M, perm) ==
    LET A == columns(block(M, M.rows, colsMinusOne(M)))
        b == col(M, M.cols - 1)
        n == Len(A)
    IN SimplicialLDLT_solve([i \in 1..n |-> [j \in 1..n |-> Dot(A[i], A[j])]],
                            [i \in 1..n |-> Dot(A[i], b)], perm)

-----------------------------------------------------------------------------
(* The orderingType chains of the two entry points *)

orderingQR_elseNatural(t) ==
    IF t = "AMD" THEN "AMDOrdering"
    ELSE IF t = "COLAMD" THEN "COLAMDOrdering"
    ELSE IF t = "METIS" THEN "MetisOrdering"
    ELSE "NaturalOrdering"

orderingQR_noMetis(t) ==
    IF t = "AMD" THEN "AMDOrdering"
    ELSE IF t = "COLAMD" THEN "COLAMDOrdering"
    ELSE IF t = "NATURAL" THEN "NaturalOrdering"
    ELSE "none"

orderingQR(t) ==
    IF t = "AMD" THEN "AMDOrdering"
    ELSE IF t = "COLAMD" THEN "COLAMDOrdering"
    ELSE IF t = "NATURAL" THEN "NaturalOrdering"
    ELSE IF t = "METIS" THEN "MetisOrdering"
    ELSE "none"

orderingCholesky(t) ==
    IF t = "AMD" THEN "AMDOrdering"
    ELSE IF t = "COLAMD" THEN "COLAMDOrdering"
    ELSE IF t = "NATURAL" THEN "NaturalOrdering"
    ELSE IF t = "METIS" THEN "MetisOrdering"
    ELSE "none"

-----------------------------------------------------------------------------
(* VectorValues(x, gfg.getKeyDimMap()) *)

offsetOf(dims, k) == SeqSum(SubSeq(dims, 1, k - 1))

\* every block is read inside x
blocksInRange(xs, dims) == SeqSum(dims) <= Len(xs)

\* block k is the dims[k] entries of x from the variable's offset on; an entry
\* read past the end of x is indeterminate
VectorValues(xs, dims) ==
    [k \in 1..Len(dims) |->
        [i \in 1..dims[k] |->
            IF offsetOf(dims, k) + i <= Len(xs) THEN xs[offsetOf(dims, k) + i] ELSE NaN]]

-----------------------------------------------------------------------------
(* Inputs *)

\* the raw entry sequences handed to obtainSparseMatrix alone; an index of -1
\* stands for a malformed entry
RawEntry == ((0..MaxIndex) \cup {-1}) \X ((0..MaxIndex) \cup {-1}) \X RawValues
RawEntrySeqs == UNION {[1..k -> RawEntry] : k \in 0..MaxEntries}

\* a factor: one row of coefficients over the n columns of A, and its rhs
Factors(n) == [a : [1..n -> CoefValues], b : RhsValues]

\* the entries of row i: its non-zero coefficients, then its rhs in column n
rowEntries(i, f, n) ==
    SelectSeq([j \in 1..n |-> <<i, j - 1, f.a[j]>>], LAMBDA e : e[3] # 0)
        \o << <<i, n, f.b>> >>

\* gfg.sparseJacobian(): the entries of every factor, row after row
sparseJacobian(fs, n) == Flatten([i \in 1..Len(fs) |-> rowEntries(i - 1, fs[i], n)])

\* the factor graphs: a KeyDimMap and up to MaxFactors factors over its columns
\* (a graph without factors has no variables)
Graphs ==
    {[entries |-> <<>>, keyDims |-> <<>>]} \cup
    UNION {{[entries |-> sparseJacobian(fs, SeqSum(d)), keyDims |-> d] :
               fs \in UNION {[1..k -> Factors(SeqSum(d))] : k \in 1..MaxFactors}} :
           d \in KeyDimMaps \ {<<>>}}

\* the graphs of the runs with two concurrent calls
SmallGraphs ==
    {g \in Graphs : Len(g.entries) <= 2 /\ SeqSum(g.keyDims) <= 1
                    /\ \A k \in 1..Len(g.entries) : g.entries[k][3] # 4}

NoMatrix == SpMat(0, 0)

freshLocals ==
    /\ triplets = [p \in Calls |-> <<>>]
    /\ rows = [p \in Calls |-> 0]
    /\ cols = [p \in Calls |-> 0]
    /\ it = [p \in Calls |-> 0]
    /\ Ab = [p \in Calls |-> NoMatrix]
    /\ x = [p \in Calls |-> <<>>]
    /\ factorizations = [p \in Calls |-> <<>>]
    /\ result = [p \in Calls |-> <<>>]
    /\ gCurrentTimer = <<>>

entryPc(f) == IF f = "optimizeEigenQR" THEN "L73"
              ELSE IF f = "optimizeEigenCholesky" THEN "L109"
              ELSE IF f = "obtainSparseMatrix" THEN "L32" ELSE "idle"

\* one call of obtainSparseMatrix on a raw entry sequence
InitAsm ==
    /\ freshLocals
    /\ fn = [p \in Calls |-> IF p = 1 THEN "obtainSparseMatrix" ELSE "none"]
    /\ \E es \in RawEntrySeqs :
          gfg = [p \in Calls |-> [entries |-> IF p = 1 THEN es ELSE <<>>, keyDims |-> <<>>]]
    /\ orderingType = [p \in Calls |-> "NATURAL"]
    /\ pc = [p \in Calls |-> entryPc(fn[p])]
    /\ outcome = [p \in Calls |-> IF p = 1 THEN "running" ELSE "idle"]

\* one call of a solve entry point on a factor graph
Init ==
    /\ freshLocals
    /\ \E f \in {"optimizeEigenQR", "optimizeEigenCholesky"} :
          fn = [p \in Calls |-> IF p = 1 THEN f ELSE "none"]
    /\ \E g \in Graphs :
          gfg = [p \in Calls |-> IF p = 1 THEN g ELSE [entries |-> <<>>, keyDims |-> <<>>]]
    /\ \E t \in Tokens :
          orderingType = [p \in Calls |-> IF p = 1 THEN t ELSE "NATURAL"]
    /\ pc = [p \in Calls |-> entryPc(fn[p])]
    /\ outcome = [p \in Calls |-> IF p = 1 THEN "running" ELSE "idle"]

\* two concurrent calls of the solve entry points
InitConc ==
    /\ freshLocals
    /\ fn \in [Calls -> {"optimizeEigenQR", "optimizeEigenCholesky"}]
    /\ gfg \in [Calls -> SmallGraphs]
    /\ orderingType \in [Calls -> {"NATURAL", "BOGUS"}]
    /\ pc = [p \in Calls |-> entryPc(fn[p])]
    /\ outcome = [p \in Calls |-> "running"]

-----------------------------------------------------------------------------
(* Steps shared by the actions *)

\* gttic_(label), then on to the next statement
tic(p, label, next) ==
    /\ gCurrentTimer' = ticInternal(gCurrentTimer, label)
    /\ pc' = [pc EXCEPT ![p] = next]
    /\ UNCHANGED outcome

\* gttoc_(label), or the end of the scope of a gttic_(label): on a mismatch
\* tocInternal throws and the call ends without a result
toc(p, label, next) ==
    IF tocMatches(gCurrentTimer, label)
    THEN /\ gCurrentTimer' = tocInternal(gCurrentTimer, label)
         /\ pc' = [pc EXCEPT ![p] = next]
         /\ outcome' = [outcome EXCEPT ![p] = IF next = "done" THEN "returned" ELSE @]
    ELSE /\ pc' = [pc EXCEPT ![p] = "done"]
         /\ outcome' = [outcome EXCEPT ![p] = "timing_error"]
         /\ UNCHANGED gCurrentTimer

\* an out-of-range access in the library: the build may stop on its assertion
crash(p) ==
    /\ pc' = [pc EXCEPT ![p] = "done"]
    /\ outcome' = [outcome EXCEPT ![p] = "crashed"]

timerLabel(f) == IF f = "optimizeEigenQR" THEN "EigenOptimizer_optimizeEigenQR"
                 ELSE "EigenOptimizer_optimizeEigenCholesky"

-----------------------------------------------------------------------------
(* obtainSparseMatrix *)

\* lines 32-39: gttic_, entries = gfg.sparseJacobian(), the empty triplet buffer
obtainSparseMatrix_L32(p) ==
    /\ pc[p] = "L32"
    /\ tic(p, "EigenOptimizer_obtainSparseMatrix", "L41")
    /\ triplets' = [triplets EXCEPT ![p] = <<>>]
    /\ rows' = [rows EXCEPT ![p] = 0]
    /\ cols' = [cols EXCEPT ![p] = 0]
    /\ it' = [it EXCEPT ![p] = 0]
    /\ UNCHANGED <<inputs, Ab, solveVars>>

\* line 41
obtainSparseMatrix_L41(p) ==
    /\ pc[p] = "L41"
    /\ tic(p, "EigenOptimizer_obtainSparseMatrix_for_loop", "L42")
    /\ UNCHANGED <<inputs, asmVars, solveVars>>

\* lines 42-47: one iteration of the loop over the entries
obtainSparseMatrix_L42(p) ==
    /\ pc[p] = "L42"
    /\ it[p] < Len(gfg[p].entries)
    /\ LET st == loopBody([triplets |-> triplets[p], rows |-> rows[p], cols |-> cols[p]],
                           gfg[p].entries[it[p] + 1])
       IN /\ triplets' = [triplets EXCEPT ![p] = st.triplets]
          /\ rows' = [rows EXCEPT ![p] = st.rows]
          /\ cols' = [cols EXCEPT ![p] = st.cols]
    /\ it' = [it EXCEPT ![p] = @ + 1]
    /\ UNCHANGED <<inputs, pc, Ab, solveVars, outcome, gCurrentTimer>>

\* lines 48-51: the loop is over; gttoc_, SpMat Ab(rows + 1, cols + 1)
obtainSparseMatrix_L48(p) ==
    /\ pc[p] = "L42"
    /\ it[p] = Len(gfg[p].entries)
    /\ toc(p, "EigenOptimizer_obtainSparseMatrix_for_loop", "L52")
    /\ Ab' = [Ab EXCEPT ![p] = SpMat(matrixShape(rows[p], cols[p])[1],
                                     matrixShape(rows[p], cols[p])[2])]
    /\ UNCHANGED <<inputs, triplets, rows, cols, it, solveVars>>

\* lines 52-53: gttic_, Ab.setFromTriplets; a triplet outside the matrix is
\* written out of range: the build stops on Eigen's assertion or goes on with
\* whatever the matrix then holds
obtainSparseMatrix_L52(p) ==
    /\ pc[p] = "L52"
    /\ gCurrentTimer' = ticInternal(gCurrentTimer,
                                    "EigenOptimizer_obtainSparseMatrix_setFromTriplets")
    /\ \/ /\ tripletsInRange(Ab[p], triplets[p])
          /\ Ab' = [Ab EXCEPT ![p] = setFromTriplets(@, triplets[p])]
          /\ pc' = [pc EXCEPT ![p] = "L54"]
          /\ UNCHANGED outcome
       \/ /\ ~tripletsInRange(Ab[p], triplets[p])
          /\ pc' = [pc EXCEPT ![p] = "L54"]
          /\ UNCHANGED <<Ab, outcome>>
       \/ /\ ~tripletsInRange(Ab[p], triplets[p])
          /\ crash(p)
          /\ UNCHANGED Ab
    /\ UNCHANGED <<inputs, triplets, rows, cols, it, solveVars>>

\* line 54
obtainSparseMatrix_L54(p) ==
    /\ pc[p] = "L54"
    /\ toc(p, "EigenOptimizer_obtainSparseMatrix_setFromTriplets", "L55")
    /\ UNCHANGED <<inputs, asmVars, solveVars>>

\* lines 55-56: gttic_, Ab.makeCompressed(), which changes no coefficient
obtainSparseMatrix_L55(p) ==
    /\ pc[p] = "L55"
    /\ tic(p, "EigenOptimizer_obtainSparseMatrix_makeCompressed", "L57")
    /\ UNCHANGED <<inputs, asmVars, solveVars>>

\* line 57
obtainSparseMatrix_L57(p) ==
    /\ pc[p] = "L57"
    /\ toc(p, "EigenOptimizer_obtainSparseMatrix_makeCompressed", "L58")
    /\ UNCHANGED <<inputs, asmVars, solveVars>>

\* line 58: return Ab, and the end of the scope of the function's gttic_
obtainSparseMatrix_L58(p) ==
    /\ pc[p] = "L58"
    /\ toc(p, "EigenOptimizer_obtainSparseMatrix",
           IF fn[p] = "optimizeEigenQR" THEN "L77"
           ELSE IF fn[p] = "optimizeEigenCholesky" THEN "L113" ELSE "done")
    /\ UNCHANGED <<inputs, asmVars, solveVars>>

-----------------------------------------------------------------------------
(* optimizeEigenQR and solveQR *)

qrBranchLabel(ordering) ==
    IF ordering = "AMDOrdering" THEN "EigenOptimizer_optimizeEigenQR_AMD"
    ELSE IF ordering = "COLAMDOrdering" THEN "EigenOptimizer_optimizeEigenQR_COLAMD"
    ELSE IF ordering = "NaturalOrdering" THEN "EigenOptimizer_optimizeEigenQR_NATURAL"
    ELSE "EigenOptimizer_optimizeEigenQR_METIS"

\* the VectorValues of the return statement: a block read past the end of x
\* stops the build on Eigen's assertion or yields indeterminate entries
returnVectorValues(p) ==
    /\ \/ /\ result' = [result EXCEPT ![p] = VectorValues(x[p], gfg[p].keyDims)]
          /\ toc(p, timerLabel(fn[p]), "done")
       \/ /\ ~blocksInRange(x[p], gfg[p].keyDims)
          /\ crash(p)
          /\ UNCHANGED <<result, gCurrentTimer>>
    /\ UNCHANGED <<inputs, asmVars, x, factorizations>>

\* lines 73-74: gttic_, then the call of obtainSparseMatrix
optimizeEigenQR_L73(p) ==
    /\ pc[p] = "L73"
    /\ tic(p, "EigenOptimizer_optimizeEigenQR", "L32")
    /\ UNCHANGED <<inputs, asmVars, solveVars>>

\* lines 76-89: Eigen::VectorXd x, and the chain over orderingType; a branch
\* opens its own gttic_, no branch leaves x empty
optimizeEigenQR_L77(p) ==
    /\ pc[p] = "L77"
    /\ x' = [x EXCEPT ![p] = <<>>]
    /\ IF orderingQR(orderingType[p]) # "none"
       THEN tic(p, qrBranchLabel(orderingQR(orderingType[p])), "L63")
       ELSE /\ pc' = [pc EXCEPT ![p] = "L90"]
            /\ UNCHANGED <<outcome, gCurrentTimer>>
    /\ UNCHANGED <<inputs, asmVars, factorizations, result>>

\* lines 63-66: gttic_, the solver on Ab.block(0, 0, rows, cols - 1), and its
\* solve of Ab.col(cols - 1)
solveQR_L63(p) ==
    /\ pc[p] = "L63"
    /\ gCurrentTimer' = ticInternal(gCurrentTimer, "EigenOptimizer_solveQR")
    /\ \/ /\ solveInRange(Ab[p])
          /\ \E perm \in OrderingPerms(orderingQR(orderingType[p]), colsMinusOne(Ab[p])) :
                /\ x' = [x EXCEPT ![p] = solveQR(Ab[p], perm)]
                /\ factorizations' = [factorizations EXCEPT ![p] =
                       Append(@, [solver |-> "SparseQR",
                                  ordering |-> orderingQR(orderingType[p]),
                                  perm |-> perm])]
          /\ pc' = [pc EXCEPT ![p] = "L67"]
          /\ UNCHANGED outcome
       \/ /\ ~solveInRange(Ab[p])
          /\ crash(p)
          /\ UNCHANGED <<x, factorizations>>
    /\ UNCHANGED <<inputs, asmVars, result>>

\* line 67: return, and the end of the scope of solveQR's gttic_
solveQR_L67(p) ==
    /\ pc[p] = "L67"
    /\ toc(p, "EigenOptimizer_solveQR", "L89")
    /\ UNCHANGED <<inputs, asmVars, solveVars>>

\* the end of the branch: the end of the scope of its gttic_
optimizeEigenQR_L89(p) ==
    /\ pc[p] = "L89"
    /\ toc(p, qrBranchLabel(orderingQR(orderingType[p])), "L90")
    /\ UNCHANGED <<inputs, asmVars, solveVars>>

\* line 90: return VectorValues(x, gfg.getKeyDimMap())
optimizeEigenQR_L90(p) ==
    /\ pc[p] = "L90"
    /\ returnVectorValues(p)

-----------------------------------------------------------------------------
(* optimizeEigenCholesky and solveCholesky *)

\* lines 109-110
optimizeEigenCholesky_L109(p) ==
    /\ pc[p] = "L109"
    /\ tic(p, "EigenOptimizer_optimizeEigenCholesky", "L32")
    /\ UNCHANGED <<inputs, asmVars, solveVars>>

\* lines 112-128: Eigen::VectorXd x, and the chain over orderingType
optimizeEigenCholesky_L113(p) ==
    /\ pc[p] = "L113"
    /\ x' = [x EXCEPT ![p] = <<>>]
    /\ pc' = [pc EXCEPT ![p] =
                 IF orderingCholesky(orderingType[p]) # "none" THEN "L95" ELSE "L129"]
    /\ UNCHANGED <<inputs, asmVars, factorizations, result, outcome, gCurrentTimer>>

\* lines 95-101: gttic_, A, At and b, the solver on At * A, its solve of At * b
solveCholesky_L95(p) ==
    /\ pc[p] = "L95"
    /\ gCurrentTimer' = ticInternal(gCurrentTimer, "EigenOptimizer_solveCholesky")
    /\ \/ /\ solveInRange(Ab[p])
          /\ \E perm \in OrderingPerms(orderingCholesky(orderingType[p]),
                                       colsMinusOne(Ab[p])) :
                /\ x' = [x EXCEPT ![p] = solveCholesky(Ab[p], perm)]
                /\ factorizations' = [factorizations EXCEPT ![p] =
                       Append(@, [solver |-> "SimplicialLDLT",
                                  ordering |-> orderingCholesky(orderingType[p]),
                                  perm |-> perm])]
          /\ pc' = [pc EXCEPT ![p] = "L102"]
          /\ UNCHANGED outcome
       \/ /\ ~solveInRange(Ab[p])
          /\ crash(p)
          /\ UNCHANGED <<x, factorizations>>
    /\ UNCHANGED <<inputs, asmVars, result>>

\* line 102: return, and the end of the scope of solveCholesky's gttic_
solveCholesky_L102(p) ==
    /\ pc[p] = "L102"
    /\ toc(p, "EigenOptimizer_solveCholesky", "L129")
    /\ UNCHANGED <<inputs, asmVars, solveVars>>

\* line 129: return VectorValues(x, gfg.getKeyDimMap())
optimizeEigenCholesky_L129(p) ==
    /\ pc[p] = "L129"
    /\ returnVectorValues(p)

-----------------------------------------------------------------------------
(* Specifications *)

NextAsm ==
    \E p \in Calls :
        \/ obtainSparseMatrix_L32(p)
        \/ obtainSparseMatrix_L41(p)
        \/ obtainSparseMatrix_L42(p)
        \/ obtainSparseMatrix_L48(p)
        \/ obtainSparseMatrix_L52(p)
        \/ obtainSparseMatrix_L54(p)
        \/ obtainSparseMatrix_L55(p)
        \/ obtainSparseMatrix_L57(p)
        \/ obtainSparseMatrix_L58(p)

Next ==
    \E p \in Calls :
        \/ optimizeEigenQR_L73(p)
        \/ optimizeEigenCholesky_L109(p)
        \/ obtainSparseMatrix_L32(p)
        \/ obtainSparseMatrix_L41(p)
        \/ obtainSparseMatrix_L42(p)
        \/ obtainSparseMatrix_L48(p)
        \/ obtainSparseMatrix_L52(p)
        \/ obtainSparseMatrix_L54(p)
        \/ obtainSparseMatrix_L55(p)
        \/ obtainSparseMatrix_L57(p)
        \/ obtainSparseMatrix_L58(p)
        \/ optimizeEigenQR_L77(p)
        \/ solveQR_L63(p)
        \/ solveQR_L67(p)
        \/ optimizeEigenQR_L89(p)
        \/ optimizeEigenQR_L90(p)
        \/ optimizeEigenCholesky_L113(p)
        \/ solveCholesky_L95(p)
        \/ solveCholesky_L102(p)
        \/ optimizeEigenCholesky_L129(p)

\* one solve call on a factor graph
Spec == Init /\ [][Next]_vars

\* one call of obtainSparseMatrix on raw entries
SpecAsm == InitAsm /\ [][NextAsm]_vars

\* two concurrent solve calls
SpecConc == InitConc /\ [][Next]_vars

-----------------------------------------------------------------------------
(* Properties *)

SolveFns == {"optimizeEigenQR", "optimizeEigenCholesky"}

returned(p) == pc[p] = "done" /\ outcome[p] = "returned"

\* a SparseEntry has a non-negative row and column
WellFormed(es) == \A k \in 1..Len(es) : es[k][1] >= 0 /\ es[k][2] >= 0

RECURSIVE SumOver(_, _)
SumOver(S, es) ==
    IF S = {} THEN 0
    ELSE LET k == CHOOSE k \in S : TRUE IN es[k][3] + SumOver(S \ {k}, es)

\* the sum of the values of the entries at coordinate rc
CoordSum(es, rc) ==
    SumOver({k \in 1..Len(es) : <<es[k][1], es[k][2]>> = rc}, es)

\* the largest index at position i (1: row, 2: column), 0 without entries
MaxIndexOf(es, i) ==
    IF es = <<>> THEN 0
    ELSE CHOOSE m \in {es[k][i] : k \in 1..Len(es)} :
             \A k \in 1..Len(es) : es[k][i] <= m

Permuted(es, q) == [k \in 1..Len(es) |-> es[q[k]]]

\* the coordinate-wise sums of the entries es, on the domain of matrix M
SumsOn(M, es) == [rc \in DOMAIN M.coeff |-> CoordSum(es, rc)]

\* C2: the matrix returned by obtainSparseMatrix holds at every coordinate the
\* sum of the values of all entries with that coordinate (0 without any), every
\* entry lies on a coordinate of the matrix, and every permutation of the
\* sequence has the same sums: duplicates add up, the order does not matter.
C2_AssemblySums ==
    \A p \in Calls :
        (fn[p] = "obtainSparseMatrix" /\ returned(p) /\ WellFormed(gfg[p].entries)) =>
            LET es == gfg[p].entries
            IN /\ \A rc \in DOMAIN Ab[p].coeff : Ab[p].coeff[rc] = CoordSum(es, rc)
               /\ \A k \in 1..Len(es) : <<es[k][1], es[k][2]>> \in DOMAIN Ab[p].coeff
               /\ \A q \in ColumnOrders(Len(es)) :
                      /\ Ab[p] = obtainSparseMatrix(Permuted(es, q))
                      /\ Ab[p].coeff = SumsOn(Ab[p], Permuted(es, q))

\* the spec's example: (0,0,2.0) and (0,0,3.0) have assembled to 5.0 at (0,0)
C2_Witness ==
    /\ returned(1) /\ fn[1] = "obtainSparseMatrix"
    /\ gfg[1].entries = << <<0, 0, 2>>, <<0, 0, 3>> >>
    /\ Ab[1].coeff[<<0, 0>>] = 5

\* C3: the matrix returned by obtainSparseMatrix has (maxRow + 1) rows and
\* (maxCol + 1) columns, maxRow and maxCol the largest indices among the
\* entries; every entry's coordinate is inside it; no entry gives 1 by 1.
C3_ShapeFromEntries ==
    \A p \in Calls :
        (fn[p] = "obtainSparseMatrix" /\ returned(p) /\ WellFormed(gfg[p].entries)) =>
            LET es == gfg[p].entries
            IN /\ Ab[p].rows = MaxIndexOf(es, 1) + 1
               /\ Ab[p].cols = MaxIndexOf(es, 2) + 1
               /\ \A k \in 1..Len(es) : es[k][1] < Ab[p].rows /\ es[k][2] < Ab[p].cols
               /\ DOMAIN Ab[p].coeff = (0..Ab[p].rows - 1) \X (0..Ab[p].cols - 1)
               /\ es = <<>> => (Ab[p].rows = 1 /\ Ab[p].cols = 1)

\* a returned matrix of 2 rows and 1 column, from an entry in row 1
C3_Witness ==
    /\ returned(1) /\ fn[1] = "obtainSparseMatrix"
    /\ gfg[1].entries = << <<1, 0, 2>> >>
    /\ Ab[1].rows = 2 /\ Ab[1].cols = 1

\* C8 (the claim as stated): a call of obtainSparseMatrix on a sequence with a
\* negative row or column index never returns a matrix.
C8_MalformedRejected ==
    \A p \in Calls :
        (fn[p] = "obtainSparseMatrix" /\ pc[p] = "done" /\ ~WellFormed(gfg[p].entries)) =>
            outcome[p] # "returned"

\* the ordering algorithm a recognized token names
OrderingNamed(t) ==
    CASE t = "NATURAL" -> "NaturalOrdering"
      [] t = "AMD" -> "AMDOrdering"
      [] t = "COLAMD" -> "COLAMDOrdering"
      [] t = "METIS" -> "MetisOrdering"
      [] OTHER -> "none"

SolverOf(f) == IF f = "optimizeEigenQR" THEN "SparseQR" ELSE "SimplicialLDLT"

\* C1 (the claim as stated): a solve call with an ordering string outside
\* NATURAL, AMD, COLAMD, METIS never ends in a normally returned VectorValues.
C1_UnrecognizedOrderingFails ==
    \A p \in Calls :
        (fn[p] \in SolveFns /\ pc[p] = "done" /\ orderingType[p] \notin Recognized) =>
            outcome[p] # "returned"

\* C4: a solve call runs at most one factorization, only for one of the four
\* tokens, with the solver of its entry point and the ordering algorithm the
\* token names; a call that returns under a recognized token has run exactly
\* one; any other string ("amd", "BOGUS") runs none.
C4_ExactlyFourTokens ==
    \A p \in Calls :
        fn[p] \in SolveFns =>
            /\ Len(factorizations[p]) <= 1
            /\ \A k \in 1..Len(factorizations[p]) :
                   /\ orderingType[p] \in Recognized
                   /\ factorizations[p][k].ordering = OrderingNamed(orderingType[p])
                   /\ factorizations[p][k].solver = SolverOf(fn[p])
                   /\ (orderingType[p] = "NATURAL" =>
                          factorizations[p][k].perm = Identity(Len(factorizations[p][k].perm)))
            /\ (returned(p) /\ orderingType[p] \in Recognized) =>
                   Len(factorizations[p]) = 1
            /\ (pc[p] = "done" /\ orderingType[p] \notin Recognized) =>
                   factorizations[p] = <<>>

\* "amd" has run no factorization; the call is over
C4_Witness ==
    /\ pc[1] = "done" /\ fn[1] = "optimizeEigenQR" /\ orderingType[1] = "amd"
    /\ gfg[1].entries # <<>>
    /\ factorizations[1] = <<>>

RECURSIVE SumLens(_)
SumLens(bs) == IF bs = <<>> THEN 0 ELSE Len(Head(bs)) + SumLens(Tail(bs))

\* C5 (the claim as stated): whenever a solve call returns a VectorValues, the
\* dimensions of the KeyDimMap sum to len(x) and the blocks hold len(x) entries.
C5_BlocksCoverX ==
    \A p \in Calls :
        (fn[p] \in SolveFns /\ returned(p)) =>
            /\ SeqSum(gfg[p].keyDims) = Len(x[p])
            /\ SumLens(result[p]) = Len(x[p])

\* the coefficient part A of [A|b] as its columns, and the columns' independence
CoefficientColumns(M) == [j \in 1..M.cols - 1 |-> col(M, j - 1)]

RECURSIVE Independent(_)
Independent(cs) ==
    cs = <<>> \/
    LET a == Head(cs)
        nn == Dot(a, a)
    IN /\ nn # Zero
       /\ Independent([j \in 1..Len(cs) - 1 |->
                          VSub(cs[j + 1], VScale(RDiv(Dot(a, cs[j + 1]), nn), a))])

FullColumnRank(M) == Independent(CoefficientColumns(M))

\* the x of the entry point f under the NATURAL policy
NaturalSolution(f, M) ==
    IF f = "optimizeEigenQR" THEN solveQR(M, Identity(M.cols - 1))
    ELSE solveCholesky(M, Identity(M.cols - 1))

\* C6 (the claim as stated): for every factor graph, the x of a returned solve
\* call under a recognized policy is the x of the same entry point under NATURAL.
C6_SameUnderAllOrderings ==
    \A p \in Calls :
        (fn[p] \in SolveFns /\ returned(p) /\ orderingType[p] \in Recognized) =>
            x[p] = NaturalSolution(fn[p], Ab[p])

\* C6 amended: for a factor graph whose coefficient matrix A has full column
\* rank, the x of a returned solve call under a recognized policy is the x of
\* the same entry point under NATURAL.
C6_SameUnderAllOrderings_FullRank ==
    \A p \in Calls :
        (fn[p] \in SolveFns /\ returned(p) /\ orderingType[p] \in Recognized
             /\ FullColumnRank(Ab[p])) =>
            x[p] = NaturalSolution(fn[p], Ab[p])

\* a full-rank system of two columns solved under the column order <<2, 1>>
C6_Witness ==
    /\ returned(1) /\ fn[1] = "optimizeEigenQR" /\ orderingType[1] = "COLAMD"
    /\ Ab[1].cols = 3 /\ FullColumnRank(Ab[1])
    /\ Len(factorizations[1]) = 1 /\ factorizations[1][1].perm = <<2, 1>>
    /\ x[1] = NaturalSolution(fn[1], Ab[1])

\* the x of the other strategy on the same matrix under column order q
OtherStrategy(f, M, q) ==
    IF f = "optimizeEigenQR" THEN solveCholesky(M, q) ELSE solveQR(M, q)

\* the spec's scenario: factors 1 x = 2 and 1 x = 4 on one variable
TwoFactorEntries == << <<0, 0, 1>>, <<0, 1, 2>>, <<1, 0, 1>>, <<1, 1, 4>> >>

\* C7: on an overdetermined system of full column rank, the x a solve call
\* returns is the x of the other strategy under every column order of the same
\* policy; on A = [[1],[1]], b = [2,4] it is [3].
C7_QRAgreesWithCholesky ==
    \A p \in Calls :
        (fn[p] \in SolveFns /\ returned(p) /\ orderingType[p] \in Recognized
             /\ FullColumnRank(Ab[p]) /\ Ab[p].rows > Ab[p].cols - 1) =>
            /\ \A q \in OrderingPerms(OrderingNamed(orderingType[p]), Ab[p].cols - 1) :
                   x[p] = OtherStrategy(fn[p], Ab[p], q)
            /\ gfg[p].entries = TwoFactorEntries => x[p] = << <<3, 1>> >>

\* the Cholesky entry point has returned x = [3] on the two-factor system
C7_Witness ==
    /\ returned(1) /\ fn[1] = "optimizeEigenCholesky" /\ orderingType[1] = "AMD"
    /\ gfg[1].entries = TwoFactorEntries
    /\ x[1] = << <<3, 1>> >>
    /\ x[1] = solveQR(Ab[1], <<1>>)

\* C9 (the claim as stated): under every interleaving of two solve calls, a
\* call that is over has ended as it ends when run alone: never by a failure
\* of the shared timing stack, and a returned x is the x of its own matrix.
C9_CallsAreIsolated ==
    \A p \in Calls :
        (fn[p] \in SolveFns /\ pc[p] = "done") =>
            /\ outcome[p] # "timing_error"
            /\ (returned(p) /\ orderingType[p] = "NATURAL") =>
                   x[p] = NaturalSolution(fn[p], Ab[p])

\* a call run alone never fails on the timing stack, which is empty at its end
SingleCallTimingOk ==
    \A p \in Calls :
        /\ outcome[p] # "timing_error"
        /\ pc[p] = "done" => (outcome[p] = "crashed" \/ gCurrentTimer = <<>>)

====
